---- MODULE Spec2Model ----
(***************************************************************************)
(* The compress page of Space-Saver (routes/compress/+page.svelte): the    *)
(* scan -> confirm -> process workflow and the worker pool that            *)
(* handleCompress starts.  JavaScript runs one task at a time, so every    *)
(* action below is one run-to-completion piece of a handler: from its      *)
(* start, or from the resumption of an await, to its next await or return. *)
(* The path selector of the sidebar (PathSelector, PathInput and the path  *)
(* utilities) is specified on its own as PathSpec; the path utilities and  *)
(* the storage utilities, called on their own with any arguments, as       *)
(* PathCallSpec and StorageCallSpec; the mutators of the store's scan      *)
(* paths (stores/app.ts) as StoreSpec.                                     *)
(***************************************************************************)
EXTENDS Integers, Sequences, FiniteSets, TLC

\* ---------------------------------------------------------------- bounds
\* Longest path string handed to a path utility called on its own.
MaxPathLen == 3
\* Number of distinct file paths the external scan can report.
MaxFiles == 2
\* Largest slider value the model explores (the slider itself goes to 20).
MaxPool == 2

\* ------------------------------------------------------------- constants
\* ConfirmStep.svelte: <input type="range" min="1" max="20">
PoolSizeMin == 1
PoolSizeMax == 20
\* let poolSize = $state(2)
PoolSizeDefault == 2

\* File paths are the integers 1..MaxFiles (distinct strings in the program).
Files == 1..MaxFiles
\* A path is the sequence of its characters.  The one scan root the sidebar
\* adds or removes in the specification of the compress page.
ScanRoots == {<<"/", "a">>}
\* The paths the user types or picks in the path selector: two nested
\* directories, the same two in another letter case and separator style,
\* and the filesystem root.
PathCandidates ==
  { <<"/", "a">>,
    <<"/", "a", "/", "b">>,
    <<"/", "A", "/">>,
    <<"\\", "a", "\\", "B">>,
    <<"/">> }
\* What the text field of the path input can hold: nothing, blanks, a
\* candidate, a candidate between blanks.
TypedTexts ==
  PathCandidates \cup { <<>>, <<" ">>, <<" ", "/", "a", " ">> }
\* The characters of the path strings a path utility is called with on its
\* own: both separators, a letter in both cases, the colon of a drive.
PathChars == {"/", "\\", "c", "C", ":"}
\* Every string of at most MaxPathLen of these characters.
PathStrings == UNION { [1..n -> PathChars] : n \in 0..MaxPathLen }
\* The keys of the storage utilities called on their own (STORAGE_KEYS).
StorageKeys == {"space-saver:scanPaths", "space-saver:filterConfig"}
\* Longest array saved by the storage utilities called on their own.
MaxSaved == 2
\* The strings of those arrays: a path with backslashes, which
\* JSON.stringify escapes, and a name with a double quote.
SavedStrings == { <<"\\", "a", "\\", "B">>, <<"a", "\"">> }
SavedValues == UNION { [1..n -> SavedStrings] : n \in 0..MaxSaved }
\* The default values handed to loadFromStorage.
DefaultValues == { <<>>, << <<"d">> >> }
\* Texts other code leaves in the storage that JSON.parse rejects: prose,
\* the empty text, an array cut short.
BrokenTexts == { <<"n", "o", "t", " ", "j", "s", "o", "n">>, <<>>, <<"[", "\"">> }
\* The folder dialog returns up to MaxSelected folders (multiple: true).
MaxSelected == 2
\* Longest list of invalid paths the model explores.
MaxInvalid == 1
\* Whether localStorage.setItem succeeds: it does in the behaviours explored.
StorageWrites == {TRUE}
\* The plugin catalog, in the order getCompressionPlugins returns it.
PluginCatalog == <<"Image ZIP to WebP ZIP", "WebP Converter">>

NULL == "null"
NoError == "undefined"
\* Messages of the Error objects the external engine can throw / reject with.
ErrorMessages == {"engine unreachable"}
\* Error texts the engine encodes in a returned failure result.
ResultErrors == {"permission denied"}

\* ------------------------------------------------------------- sequences
Range(s) == {s[i] : i \in DOMAIN s}

Contains(s, x) == \E i \in DOMAIN s : s[i] = x

\* Array.prototype.filter(p => p !== x)
Without(s, x) == SelectSeq(s, LAMBDA e : e # x)

IsPrefix(s, t) == Len(s) <= Len(t) /\ SubSeq(t, 1, Len(s)) = s

NoDuplicates(s) == \A i, j \in DOMAIN s : s[i] = s[j] => i = j

Min(a, b) == IF a <= b THEN a ELSE b

\* ----------------------------------------------------------------- paths
\* String.prototype.toLowerCase, on the letters of the model's alphabet.
ToLowerCase(c) ==
  IF c = "A" THEN "a" ELSE IF c = "B" THEN "b" ELSE IF c = "C" THEN "c" ELSE c

\* String.prototype.trim: leading and trailing blanks removed.
RECURSIVE TrimStart(_)
TrimStart(s) ==
  IF s # <<>> /\ Head(s) = " " THEN TrimStart(Tail(s)) ELSE s

RECURSIVE TrimEnd(_)
TrimEnd(s) ==
  IF s # <<>> /\ s[Len(s)] = " " THEN TrimEnd(SubSeq(s, 1, Len(s) - 1)) ELSE s

Trim(s) == TrimEnd(TrimStart(s))

\* normalizePath with the trailing "/" removed before the backslashes are
\* replaced.
NormalizePath_StripsFirst(path) ==
  LET stripped == IF Len(path) > 1 /\ path[Len(path)] = "/"
                  THEN SubSeq(path, 1, Len(path) - 1)
                  ELSE path
  IN [i \in DOMAIN stripped |->
        IF stripped[i] = "\\" THEN "/" ELSE ToLowerCase(stripped[i])]

\* normalizePath(path): backslashes to "/", one trailing "/" removed from a
\* path longer than one character, lower case.
NormalizePath(path) ==
  LET replaced == [i \in DOMAIN path |-> IF path[i] = "\\" THEN "/" ELSE path[i]]
      normalized == IF Len(replaced) > 1 /\ replaced[Len(replaced)] = "/"
                    THEN SubSeq(replaced, 1, Len(replaced) - 1)
                    ELSE replaced
  IN [i \in DOMAIN normalized |-> ToLowerCase(normalized[i])]

\* isSubpath(path, parentPath)
IsSubpath(path, parentPath) ==
  LET normalizedPath == NormalizePath(path)
      normalizedParent == NormalizePath(parentPath)
  IN IF normalizedPath = normalizedParent THEN FALSE
     ELSE IsPrefix(normalizedParent \o <<"/">>, normalizedPath)

\* isParentPath(parentPath, childPath)
IsParentPath(parentPath, childPath) == IsSubpath(childPath, parentPath)

\* findParentPaths(newPath, existingPaths)
FindParentPaths(newPath, existingPaths) ==
  SelectSeq(existingPaths, LAMBDA existing : IsSubpath(newPath, existing))

\* findChildPaths(newPath, existingPaths)
FindChildPaths(newPath, existingPaths) ==
  SelectSeq(existingPaths, LAMBDA existing : IsSubpath(existing, newPath))

\* One warning of a validation: its fixed text and the paths joined into it.
Warning(text, paths) == [text |-> text, paths |-> paths]

\* validatePath(path, existingPaths)
ValidatePath(path, existingPaths) ==
  LET normalizedPath == NormalizePath(path)
      isDuplicate == \E i \in DOMAIN existingPaths :
                       NormalizePath(existingPaths[i]) = normalizedPath
      isSubpathOf == FindParentPaths(path, existingPaths)
      hasSubpaths == FindChildPaths(path, existingPaths)
      warnings ==
        (IF isDuplicate
           THEN <<Warning("This path is already in the list", <<>>)>> ELSE <<>>) \o
        (IF Len(isSubpathOf) > 0
           THEN <<Warning("This path is already covered by: ", isSubpathOf)>>
           ELSE <<>>) \o
        (IF Len(hasSubpaths) > 0
           THEN <<Warning("This path would make redundant: ", hasSubpaths)>>
           ELSE <<>>)
  IN [isValid |-> ~isDuplicate /\ Len(isSubpathOf) = 0,
      isDuplicate |-> isDuplicate,
      isSubpathOf |-> isSubpathOf,
      hasSubpaths |-> hasSubpaths,
      warnings |-> warnings]

\* --------------------------------------------------------------- storage
\* storageKeys.SCAN_PATHS
SCAN_PATHS == "space-saver:scanPaths"

\* JSON.stringify of an array of strings, character by character: a
\* backslash and a double quote are escaped.
JsonEscape(c) ==
  IF c = "\\" THEN <<"\\", "\\">> ELSE IF c = "\"" THEN <<"\\", "\"">> ELSE <<c>>

RECURSIVE JsonChars(_)
JsonChars(str) ==
  IF str = <<>> THEN <<>> ELSE JsonEscape(Head(str)) \o JsonChars(Tail(str))

JsonString(str) == <<"\"">> \o JsonChars(str) \o <<"\"">>

RECURSIVE JsonItems(_)
JsonItems(array) ==
  IF array = <<>> THEN <<>>
  ELSE IF Len(array) = 1 THEN JsonString(array[1])
  ELSE JsonString(Head(array)) \o <<",">> \o JsonItems(Tail(array))

JsonStringify(array) == <<"[">> \o JsonItems(array) \o <<"]">>

\* JSON.parse on the texts localStorage holds here, the JSON arrays of
\* strings and texts that are no JSON at all: the parsed array, or a
\* SyntaxError (ok = FALSE).  ParseChars reads a string literal from behind
\* its opening quote, ParseItems the items of a non-empty array.
ParseFailed == [ok |-> FALSE, value |-> <<>>, next |-> 0]

RECURSIVE ParseChars(_, _, _)
ParseChars(text, i, acc) ==
  IF i > Len(text) THEN ParseFailed
  ELSE IF text[i] = "\"" THEN [ok |-> TRUE, value |-> acc, next |-> i + 1]
  ELSE IF text[i] = "\\"
    THEN IF i + 1 <= Len(text) /\ text[i + 1] \in {"\"", "\\"}
           THEN ParseChars(text, i + 2, Append(acc, text[i + 1]))
           ELSE ParseFailed
  ELSE ParseChars(text, i + 1, Append(acc, text[i]))

RECURSIVE ParseItems(_, _, _)
ParseItems(text, i, acc) ==
  IF i <= Len(text) /\ text[i] = "\""
    THEN LET str == ParseChars(text, i + 1, <<>>)
         IN IF ~str.ok THEN ParseFailed
            ELSE IF str.next < Len(text) /\ text[str.next] = ","
              THEN ParseItems(text, str.next + 1, Append(acc, str.value))
            ELSE IF str.next = Len(text) /\ text[str.next] = "]"
              THEN [ok |-> TRUE, value |-> Append(acc, str.value), next |-> 0]
            ELSE ParseFailed
    ELSE ParseFailed

\* How an evaluation completes: normally with a value, or by throwing.
Normal(value) == [threw |-> FALSE, value |-> value]
Thrown == [threw |-> TRUE, value |-> <<>>]

JsonParse(text) ==
  IF text = <<"[", "]">> THEN Normal(<<>>)
  ELSE IF Len(text) > 2 /\ text[1] = "["
    THEN LET items == ParseItems(text, 2, <<>>)
         IN IF items.ok THEN Normal(items.value) ELSE Thrown
  ELSE Thrown

\* try { body } catch (error) { console.error(...); [return fallback] }
Catch_Rethrows(body, fallback) == body

Catch(body, fallback) == IF body.threw THEN Normal(fallback) ELSE body

\* window.localStorage.getItem(key), setItem(key, text), removeItem(key) on
\* the items of the storage; works tells whether the storage can be accessed
\* (else the call throws).  getItem gives <<text>>, or <<>> for null.
GetItem(items, key, works) ==
  IF ~works THEN Thrown
  ELSE Normal(IF key \in DOMAIN items THEN <<items[key]>> ELSE <<>>)

SetItem(items, key, text, works) ==
  IF ~works THEN Thrown
  ELSE Normal([k \in DOMAIN items \cup {key} |->
                 IF k = key THEN text ELSE items[k]])

RemoveItem(items, key, works) ==
  IF ~works THEN Thrown
  ELSE Normal([k \in DOMAIN items \ {key} |-> items[k]])

\* loadFromStorage(key, defaultValue), in a browser window: how the call
\* completes.  An absent item (null) and an empty text are falsy.
LoadFromStorage(items, key, defaultValue, reads) ==
  LET item == GetItem(items, key, reads)
      body == IF item.threw THEN Thrown
              ELSE IF item.value # <<>> /\ item.value[1] # <<>>
                THEN JsonParse(item.value[1])
              ELSE Normal(defaultValue)
  IN Catch(body, defaultValue)

\* saveToStorage(key, value), in a browser window: how the call completes,
\* with the items of the storage after it as the value.
SaveCall(items, key, value, writes) ==
  Catch(SetItem(items, key, JsonStringify(value), writes), items)

\* saveToStorage(key, value) on the items of localStorage: setItem stores the
\* text, or throws (writes = FALSE), which is caught and leaves the items as
\* they were.
SaveToStorage(items, key, value, writes) ==
  IF writes THEN SaveCall(items, key, value, writes).value ELSE items

\* removeFromStorage(key), in a browser window: how the call completes, with
\* the items of the storage after it as the value.
RemoveFromStorage(items, key, removes) ==
  Catch(RemoveItem(items, key, removes), items)

\* The members of a set of integers as an ascending sequence.
RECURSIVE Ascending(_)
Ascending(S) ==
  IF S = {} THEN <<>>
  ELSE LET m == CHOOSE x \in S : \A y \in S : x <= y
       IN <<m>> \o Ascending(S \ {m})

VARIABLES
  \* --- appState (lib/stores/app.ts)
  scanPaths,          \* $appState.scanPaths
  error,              \* $appState.error
  \* --- page state (+page.svelte lines 19-36)
  mounted,            \* onMount: "loading" until getCompressionPlugins settles
  availablePlugins,   \* sequence of plugin names
  activePlugins,      \* set of plugin names
  scanning,
  compressibleFiles,  \* sequence of paths (CompressibleFile.path)
  rejectedFiles,      \* sequence of paths (RejectedFile.path)
  selectedFiles,      \* Set<string> in insertion order: sequence without duplicates
  compressing,
  compressionResults, \* sequence of InPlaceCompressionResult
  poolSize,
  processedCount,
  totalToProcess,
  currentlyProcessing,
  currentStep,
  \* --- the frame of the running handleCompress (locals, lines 141-148)
  filesToCompress,    \* Array.from(selectedFiles)
  plugins,            \* getActivePlugins() at the start of the run
  fileIndex,          \* the cursor
  workerPc,           \* per worker of the pool: "call" | "delay" | "done"
  workerIndex,        \* per worker: its currentIndex (0-based), -1 outside the loop
  calls,              \* compressFilesInPlace calls issued by this run, in order,
                      \* each with the way it settled
  \* --- window.localStorage: the stored text of each key that has an item
  localStorage,
  \* --- PathSelector.svelte
  invalidPaths,       \* sequence of {path, validation}
  \* --- PathInput.svelte
  inputPath,          \* the text of the input field
  pathValidation,     \* PathValidationResult | null: <<result>> or <<>>
  \* --- a call of an exported utility function (lib/utils), on its own
  args,               \* the arguments of the call
  returned            \* <<>> before the call, <<what it returned>> after it

pageVars == <<mounted, availablePlugins, activePlugins, scanning,
              compressibleFiles, rejectedFiles, selectedFiles, compressing,
              compressionResults, poolSize, processedCount, totalToProcess,
              currentlyProcessing, currentStep>>
frameVars == <<filesToCompress, plugins, fileIndex, workerPc, workerIndex, calls>>
selectorVars == <<invalidPaths, inputPath, pathValidation>>
callVars == <<args, returned>>
vars == <<scanPaths, error, pageVars, frameVars, localStorage, selectorVars,
          callVars>>

\* ----------------------------------------------------------------- Init
\* The page and the path selector as constructed, and the store's error.
ConstructedPage ==
  /\ error = NULL
  /\ mounted = "loading"
  /\ availablePlugins = <<>>
  /\ activePlugins = {}
  /\ scanning = FALSE
  /\ compressibleFiles = <<>>
  /\ rejectedFiles = <<>>
  /\ selectedFiles = <<>>
  /\ compressing = FALSE
  /\ compressionResults = <<>>
  /\ poolSize = PoolSizeDefault
  /\ processedCount = 0
  /\ totalToProcess = 0
  /\ currentlyProcessing = <<>>
  /\ currentStep = "scan"
  /\ filesToCompress = <<>>
  /\ plugins = <<>>
  /\ fileIndex = 0
  /\ workerPc = <<>>
  /\ workerIndex = <<>>
  /\ calls = <<>>
  /\ invalidPaths = <<>>
  /\ inputPath = <<>>
  /\ pathValidation = <<>>

\* createAppStore() on the items a profile holds: scanPaths is what
\* loadFromStorage gives for the scan-paths key, [] by default.
CreateAppStore(items) ==
  /\ localStorage = items
  /\ scanPaths = LoadFromStorage(items, SCAN_PATHS, <<>>, TRUE).value

\* The store, the page, the path selector and localStorage as constructed
\* in a profile with nothing stored.
Constructed ==
  /\ CreateAppStore([k \in {} |-> <<>>])
  /\ ConstructedPage

Init ==
  /\ Constructed
  /\ args = <<>>
  /\ returned = <<>>

\* ------------------------------------------------- the external engine
\* One InPlaceCompressionResult; the fields the page reads.
Result(path, success, err) == [path |-> path, success |-> success, error |-> err]

\* compressFilesInPlace([path], plugins) in web mode: filePaths.map(...).
MockCompress(filePaths) ==
  [i \in DOMAIN filePaths |-> Result(filePaths[i], TRUE, NoError)]

\* The Tauri command compress_files_in_place for one path: one result for that
\* path, a success or a failure with its error text.
EngineCompress(filePaths) ==
  { [i \in DOMAIN filePaths |-> Result(filePaths[i], TRUE, NoError)] } \cup
  { [i \in DOMAIN filePaths |-> Result(filePaths[i], FALSE, e)] : e \in ResultErrors }

\* Every way the awaited compressFilesInPlace(filePaths, plugins) can settle:
\* fulfilled with a list of results, or rejected with a thrown value, which is
\* an Error carrying a message or some other value.
CompressOutcomes(filePaths) ==
  { [kind |-> "resolved", results |-> r, message |-> NoError] :
      r \in {MockCompress(filePaths)} \cup EngineCompress(filePaths) } \cup
  { [kind |-> "error", results |-> <<>>, message |-> m] : m \in ErrorMessages } \cup
  { [kind |-> "thrown", results |-> <<>>, message |-> NoError] }

\* scanCompressibleFiles: the compressible and the rejected files of a scan,
\* distinct paths, each list in ascending order; a scanned file that is not
\* reported as compressible is reported as rejected.
ScanOutcomes ==
  { [compressible |-> Ascending(c), rejected |-> Ascending(Files \ c)] :
      c \in SUBSET Files }

\* ------------------------------------------------------------ the store
\* appState.addScanPath(path); writes tells whether localStorage.setItem
\* succeeds.
AddScanPath(path, writes) ==
  /\ IF Contains(scanPaths, path)
       THEN UNCHANGED <<scanPaths, localStorage>>
       ELSE LET newPaths == Append(scanPaths, path)
            IN /\ localStorage' = SaveToStorage(localStorage, SCAN_PATHS, newPaths, writes)
               /\ scanPaths' = newPaths
  /\ UNCHANGED <<error, pageVars, frameVars, selectorVars, callVars>>

\* appState.clearScanPaths()
ClearScanPaths(writes) ==
  /\ localStorage' = SaveToStorage(localStorage, SCAN_PATHS, <<>>, writes)
  /\ scanPaths' = <<>>
  /\ UNCHANGED <<error, pageVars, frameVars, selectorVars, callVars>>

\* ------------------------------------------------------------- plugins
\* getActivePlugins(): availablePlugins filtered by activePlugins, in order.
GetActivePlugins(available, active) ==
  SelectSeq(available, LAMBDA p : p \in active)

\* onMount, after getCompressionPlugins() resolved.
MountLoaded ==
  /\ mounted = "loading"
  /\ mounted' = "done"
  /\ availablePlugins' = PluginCatalog
  /\ activePlugins' = Range(PluginCatalog)
  /\ UNCHANGED <<scanPaths, error, scanning, compressibleFiles, rejectedFiles,
                 selectedFiles, compressing, compressionResults, poolSize,
                 processedCount, totalToProcess, currentlyProcessing,
                 currentStep, frameVars>>
  /\ UNCHANGED <<localStorage, selectorVars, callVars>>

\* onMount, after getCompressionPlugins() rejected.
MountFailed ==
  /\ mounted = "loading"
  /\ mounted' = "done"
  /\ error' = "Failed to load compression plugins"
  /\ UNCHANGED <<scanPaths, availablePlugins, activePlugins, scanning,
                 compressibleFiles, rejectedFiles, selectedFiles, compressing,
                 compressionResults, poolSize, processedCount, totalToProcess,
                 currentlyProcessing, currentStep, frameVars>>
  /\ UNCHANGED <<localStorage, selectorVars, callVars>>

\* togglePlugin(pluginName); the PluginSelector is rendered in the scan step.
TogglePlugin(name) ==
  /\ currentStep = "scan"
  /\ Contains(availablePlugins, name)
  /\ activePlugins' = IF name \in activePlugins THEN activePlugins \ {name}
                      ELSE activePlugins \cup {name}
  /\ UNCHANGED <<scanPaths, error, mounted, availablePlugins, scanning,
                 compressibleFiles, rejectedFiles, selectedFiles, compressing,
                 compressionResults, poolSize, processedCount, totalToProcess,
                 currentlyProcessing, currentStep, frameVars>>
  /\ UNCHANGED <<localStorage, selectorVars, callVars>>

\* Swap the entries at (1-based) positions i and i+1.
SwapAdjacent(s, i) ==
  [k \in DOMAIN s |-> IF k = i THEN s[i + 1] ELSE IF k = i + 1 THEN s[i] ELSE s[k]]

\* movePluginUp(index), index 0-based.
MovePluginUp(index) ==
  /\ currentStep = "scan"
  /\ index \in 0..(Len(availablePlugins) - 1)
  /\ availablePlugins' = IF index > 0 THEN SwapAdjacent(availablePlugins, index)
                         ELSE availablePlugins
  /\ UNCHANGED <<scanPaths, error, mounted, activePlugins, scanning,
                 compressibleFiles, rejectedFiles, selectedFiles, compressing,
                 compressionResults, poolSize, processedCount, totalToProcess,
                 currentlyProcessing, currentStep, frameVars>>
  /\ UNCHANGED <<localStorage, selectorVars, callVars>>

\* movePluginDown(index), index 0-based.
MovePluginDown(index) ==
  /\ currentStep = "scan"
  /\ index \in 0..(Len(availablePlugins) - 1)
  /\ availablePlugins' = IF index < Len(availablePlugins) - 1
                         THEN SwapAdjacent(availablePlugins, index + 1)
                         ELSE availablePlugins
  /\ UNCHANGED <<scanPaths, error, mounted, activePlugins, scanning,
                 compressibleFiles, rejectedFiles, selectedFiles, compressing,
                 compressionResults, poolSize, processedCount, totalToProcess,
                 currentlyProcessing, currentStep, frameVars>>
  /\ UNCHANGED <<localStorage, selectorVars, callVars>>

\* handleScan() without the clearing of the lists before the scan call.
HandleScan_KeepsCandidates ==
  /\ currentStep = "scan"
  /\ ~scanning
  /\ (compressibleFiles = <<>> => scanPaths # <<>>)
  /\ IF scanPaths = <<>>
       THEN /\ error' = "Please add paths to scan"
            /\ UNCHANGED <<scanning, compressibleFiles, rejectedFiles, selectedFiles>>
     ELSE IF activePlugins = {}
       THEN /\ error' = "Please activate at least one plugin"
            /\ UNCHANGED <<scanning, compressibleFiles, rejectedFiles, selectedFiles>>
     ELSE /\ scanning' = TRUE
          /\ error' = NULL
          /\ UNCHANGED <<compressibleFiles, rejectedFiles, selectedFiles>>
  /\ UNCHANGED <<scanPaths, mounted, availablePlugins, activePlugins, compressing,
                 compressionResults, poolSize, processedCount, totalToProcess,
                 currentlyProcessing, currentStep, frameVars>>
  /\ UNCHANGED <<localStorage, selectorVars, callVars>>

\* ---------------------------------------------------------------- scan
\* handleScan() up to its await.  The Scan / Rescan button is disabled while
\* scanning, and the first-scan button also while there is no scan path.
HandleScan ==
  /\ currentStep = "scan"
  /\ ~scanning
  /\ (compressibleFiles = <<>> => scanPaths # <<>>)
  /\ IF scanPaths = <<>>
       THEN /\ error' = "Please add paths to scan"
            /\ UNCHANGED <<scanning, compressibleFiles, rejectedFiles, selectedFiles>>
     ELSE IF activePlugins = {}
       THEN /\ error' = "Please activate at least one plugin"
            /\ UNCHANGED <<scanning, compressibleFiles, rejectedFiles, selectedFiles>>
     ELSE /\ scanning' = TRUE
          /\ error' = NULL
          /\ compressibleFiles' = <<>>
          /\ rejectedFiles' = <<>>
          /\ selectedFiles' = <<>>
  /\ UNCHANGED <<scanPaths, mounted, availablePlugins, activePlugins, compressing,
                 compressionResults, poolSize, processedCount, totalToProcess,
                 currentlyProcessing, currentStep, frameVars>>
  /\ UNCHANGED <<localStorage, selectorVars, callVars>>

\* handleScan() after scanCompressibleFiles resolved with result.
ScanResolved(result) ==
  /\ scanning
  /\ compressibleFiles' = result.compressible
  /\ rejectedFiles' = result.rejected
  /\ selectedFiles' = result.compressible
  /\ scanning' = FALSE
  /\ UNCHANGED <<scanPaths, error, mounted, availablePlugins, activePlugins,
                 compressing, compressionResults, poolSize, processedCount,
                 totalToProcess, currentlyProcessing, currentStep, frameVars>>
  /\ UNCHANGED <<localStorage, selectorVars, callVars>>

\* handleScan() after scanCompressibleFiles rejected: an Error with a message,
\* or another value ("thrown").
ScanRejected(message) ==
  /\ scanning
  /\ error' = IF message # NoError THEN message ELSE "Failed to scan files"
  /\ scanning' = FALSE
  /\ UNCHANGED <<scanPaths, mounted, availablePlugins, activePlugins,
                 compressibleFiles, rejectedFiles, selectedFiles,
                 compressing, compressionResults, poolSize, processedCount,
                 totalToProcess, currentlyProcessing, currentStep, frameVars>>
  /\ UNCHANGED <<localStorage, selectorVars, callVars>>

\* ----------------------------------------------------------- selection
\* toggleFileSelection(path), from a FileListItem of the scan or confirm step.
ToggleFileSelection(path) ==
  /\ currentStep \in {"scan", "confirm"}
  /\ Contains(compressibleFiles, path)
  /\ selectedFiles' = IF Contains(selectedFiles, path)
                      THEN Without(selectedFiles, path)
                      ELSE Append(selectedFiles, path)
  /\ UNCHANGED <<scanPaths, error, mounted, availablePlugins, activePlugins,
                 scanning, compressibleFiles, rejectedFiles, compressing,
                 compressionResults, poolSize, processedCount, totalToProcess,
                 currentlyProcessing, currentStep, frameVars>>
  /\ UNCHANGED <<localStorage, selectorVars, callVars>>

\* toggleAllFiles()
ToggleAllFiles ==
  /\ currentStep \in {"scan", "confirm"}
  /\ compressibleFiles # <<>>
  /\ selectedFiles' = IF Len(selectedFiles) = Len(compressibleFiles)
                      THEN <<>>
                      ELSE compressibleFiles
  /\ UNCHANGED <<scanPaths, error, mounted, availablePlugins, activePlugins,
                 scanning, compressibleFiles, rejectedFiles, compressing,
                 compressionResults, poolSize, processedCount, totalToProcess,
                 currentlyProcessing, currentStep, frameVars>>
  /\ UNCHANGED <<localStorage, selectorVars, callVars>>

\* ---------------------------------------------------------------- steps
\* GoToConfirm with a Next button that is never disabled: the handler runs
\* whatever the selection is.
GoToConfirm_NotDisabled ==
  /\ currentStep = "scan"
  /\ compressibleFiles # <<>>
  /\ IF compressibleFiles = <<>>
       THEN error' = "Please scan for files first" /\ UNCHANGED currentStep
       ELSE currentStep' = "confirm" /\ UNCHANGED error
  /\ UNCHANGED <<scanPaths, mounted, availablePlugins, activePlugins, scanning,
                 compressibleFiles, rejectedFiles, selectedFiles, compressing,
                 compressionResults, poolSize, processedCount, totalToProcess,
                 currentlyProcessing, frameVars>>
  /\ UNCHANGED <<localStorage, selectorVars, callVars>>

\* goToConfirm(); the Next button is rendered with a non-empty candidate list
\* and disabled with an empty selection.
GoToConfirm ==
  /\ currentStep = "scan"
  /\ compressibleFiles # <<>>
  /\ selectedFiles # <<>>
  /\ IF compressibleFiles = <<>>
       THEN error' = "Please scan for files first" /\ UNCHANGED currentStep
       ELSE currentStep' = "confirm" /\ UNCHANGED error
  /\ UNCHANGED <<scanPaths, mounted, availablePlugins, activePlugins, scanning,
                 compressibleFiles, rejectedFiles, selectedFiles, compressing,
                 compressionResults, poolSize, processedCount, totalToProcess,
                 currentlyProcessing, frameVars>>
  /\ UNCHANGED <<localStorage, selectorVars, callVars>>

\* OnBack written as a fresh start: it also empties the selection.
OnBack_ClearsSelection ==
  /\ currentStep = "confirm"
  /\ currentStep' = "scan"
  /\ selectedFiles' = <<>>
  /\ UNCHANGED <<scanPaths, error, mounted, availablePlugins, activePlugins,
                 scanning, compressibleFiles, rejectedFiles,
                 compressing, compressionResults, poolSize, processedCount,
                 totalToProcess, currentlyProcessing, frameVars>>
  /\ UNCHANGED <<localStorage, selectorVars, callVars>>

\* onBack of the confirm step: () => currentStep = 'scan'
OnBack ==
  /\ currentStep = "confirm"
  /\ currentStep' = "scan"
  /\ UNCHANGED <<scanPaths, error, mounted, availablePlugins, activePlugins,
                 scanning, compressibleFiles, rejectedFiles, selectedFiles,
                 compressing, compressionResults, poolSize, processedCount,
                 totalToProcess, currentlyProcessing, frameVars>>
  /\ UNCHANGED <<localStorage, selectorVars, callVars>>

\* onPoolSizeChange(size): the slider of the confirm step, disabled while
\* compressing.
OnPoolSizeChange(size) ==
  /\ currentStep = "confirm"
  /\ ~compressing
  /\ poolSize' = size
  /\ UNCHANGED <<scanPaths, error, mounted, availablePlugins, activePlugins,
                 scanning, compressibleFiles, rejectedFiles, selectedFiles,
                 compressing, compressionResults, processedCount,
                 totalToProcess, currentlyProcessing, currentStep, frameVars>>
  /\ UNCHANGED <<localStorage, selectorVars, callVars>>

\* StartNewScan with its buttons rendered outside the {#if !compressing}
\* blocks: it can be pressed during a run.
StartNewScan_AlwaysRendered ==
  /\ currentStep = "process"
  /\ currentStep' = "scan"
  /\ compressionResults' = <<>>
  /\ compressibleFiles' = <<>>
  /\ rejectedFiles' = <<>>
  /\ selectedFiles' = <<>>
  /\ processedCount' = 0
  /\ totalToProcess' = 0
  /\ currentlyProcessing' = <<>>
  /\ UNCHANGED <<scanPaths, error, mounted, availablePlugins, activePlugins,
                 scanning, compressing, poolSize, frameVars>>
  /\ UNCHANGED <<localStorage, selectorVars, callVars>>

\* StartNewScan without selectedFiles.clear(): the selection of the finished
\* run stays.
StartNewScan_KeepsSelection ==
  /\ currentStep = "process"
  /\ ~compressing
  /\ currentStep' = "scan"
  /\ compressionResults' = <<>>
  /\ compressibleFiles' = <<>>
  /\ rejectedFiles' = <<>>
  /\ processedCount' = 0
  /\ totalToProcess' = 0
  /\ currentlyProcessing' = <<>>
  /\ UNCHANGED <<scanPaths, error, mounted, availablePlugins, activePlugins,
                 scanning, selectedFiles, compressing, poolSize, frameVars>>
  /\ UNCHANGED <<localStorage, selectorVars, callVars>>

\* startNewScan(); the button is rendered when the run is over.
StartNewScan ==
  /\ currentStep = "process"
  /\ ~compressing
  /\ currentStep' = "scan"
  /\ compressionResults' = <<>>
  /\ compressibleFiles' = <<>>
  /\ rejectedFiles' = <<>>
  /\ selectedFiles' = <<>>
  /\ processedCount' = 0
  /\ totalToProcess' = 0
  /\ currentlyProcessing' = <<>>
  /\ UNCHANGED <<scanPaths, error, mounted, availablePlugins, activePlugins,
                 scanning, compressing, poolSize, frameVars>>
  /\ UNCHANGED <<localStorage, selectorVars, callVars>>

\* ------------------------------------------------------ the worker pool
\* The state the worker closures share: the cursor, the in-flight list, each
\* worker's position and current index, and the calls issued so far.
PoolState(idx, inFlight, pc, cur, issued) ==
  [fileIndex |-> idx, currentlyProcessing |-> inFlight, workerPc |-> pc,
   workerIndex |-> cur, calls |-> issued]

\* How a call that has not settled yet is recorded.
Pending == [kind |-> "pending", results |-> <<>>, message |-> NoError]

\* Call with the plugin list cut per index, plugins.slice(0, currentIndex + 1):
\* the call for index i receives the first i + 1 plugins only.
Call_PluginsPerIndex(index, filePaths, pluginOrders) ==
  [index |-> index, filePaths |-> filePaths,
   pluginOrders |-> SubSeq(pluginOrders, 1, Min(index + 1, Len(pluginOrders))),
   settled |-> Pending]

\* One compressFilesInPlace(filePaths, pluginOrders) call, with the index it
\* was issued for and the way it settled.
Call(index, filePaths, pluginOrders) ==
  [index |-> index, filePaths |-> filePaths, pluginOrders |-> pluginOrders,
   settled |-> Pending]

\* WorkerLoop with the claim written as "currentIndex = fileIndex;
\* fileIndex += 2": every claim passes over the index after its own.
WorkerLoop_SkipsIndex(st, w, files, plg) ==
  IF st.fileIndex < Len(files)
    THEN LET currentIndex == st.fileIndex
             filePath == files[currentIndex + 1]
         IN PoolState(st.fileIndex + 2,
                      Append(st.currentlyProcessing, filePath),
                      [st.workerPc EXCEPT ![w] = "call"],
                      [st.workerIndex EXCEPT ![w] = currentIndex],
                      Append(st.calls, Call(currentIndex, <<filePath>>, plg)))
    ELSE PoolState(st.fileIndex, st.currentlyProcessing,
                   [st.workerPc EXCEPT ![w] = "done"],
                   [st.workerIndex EXCEPT ![w] = -1], st.calls)

\* WorkerLoop with the claim written as "currentIndex = fileIndex" and the
\* increment left out: the cursor is read but not advanced.
WorkerLoop_NoAdvance(st, w, files, plg) ==
  IF st.fileIndex < Len(files)
    THEN LET currentIndex == st.fileIndex
             filePath == files[currentIndex + 1]
         IN PoolState(st.fileIndex,
                      Append(st.currentlyProcessing, filePath),
                      [st.workerPc EXCEPT ![w] = "call"],
                      [st.workerIndex EXCEPT ![w] = currentIndex],
                      Append(st.calls, Call(currentIndex, <<filePath>>, plg)))
    ELSE PoolState(st.fileIndex, st.currentlyProcessing,
                   [st.workerPc EXCEPT ![w] = "done"],
                   [st.workerIndex EXCEPT ![w] = -1], st.calls)

\* WorkerLoop with a loop that does not end: a worker that finds no index
\* left waits for another 10 ms timer instead of returning.
WorkerLoop_NeverReturns(st, w, files, plg) ==
  IF st.fileIndex < Len(files)
    THEN LET currentIndex == st.fileIndex
             filePath == files[currentIndex + 1]
         IN PoolState(st.fileIndex + 1,
                      Append(st.currentlyProcessing, filePath),
                      [st.workerPc EXCEPT ![w] = "call"],
                      [st.workerIndex EXCEPT ![w] = currentIndex],
                      Append(st.calls, Call(currentIndex, <<filePath>>, plg)))
    ELSE PoolState(st.fileIndex, st.currentlyProcessing,
                   [st.workerPc EXCEPT ![w] = "delay"],
                   [st.workerIndex EXCEPT ![w] = -1], st.calls)

\* worker(), from the test of its while loop to the compressFilesInPlace call
\* it awaits, or to its return: worker w claims the next index if one is left.
WorkerLoop(st, w, files, plg) ==
  IF st.fileIndex < Len(files)
    THEN LET currentIndex == st.fileIndex
             filePath == files[currentIndex + 1]
         IN PoolState(st.fileIndex + 1,
                      Append(st.currentlyProcessing, filePath),
                      [st.workerPc EXCEPT ![w] = "call"],
                      [st.workerIndex EXCEPT ![w] = currentIndex],
                      Append(st.calls, Call(currentIndex, <<filePath>>, plg)))
    ELSE PoolState(st.fileIndex, st.currentlyProcessing,
                   [st.workerPc EXCEPT ![w] = "done"],
                   [st.workerIndex EXCEPT ![w] = -1], st.calls)

\* StartWorkers with the loop written as "for (let i = 1; i < poolSize; i++)":
\* one worker fewer than poolSize is started.
RECURSIVE StartWorkers_OneShort(_, _, _, _, _)
StartWorkers_OneShort(st, i, n, files, plg) ==
  IF i >= n - 1 THEN st
  ELSE StartWorkers_OneShort(WorkerLoop(st, i + 1, files, plg), i + 1, n, files, plg)

\* for (let i = 0; i < poolSize; i++) pool.push(worker()): workers i+1..n are
\* started one after the other, each running up to its first await.
RECURSIVE StartWorkers(_, _, _, _, _)
StartWorkers(st, i, n, files, plg) ==
  IF i >= n THEN st
  ELSE StartWorkers(WorkerLoop(st, i + 1, files, plg), i + 1, n, files, plg)

\* Commit with an empty catch block: a call that throws leaves no result.
Commit_DropsThrown(results, filePath, outcome) ==
  IF outcome.kind = "resolved"
    THEN results \o outcome.results
    ELSE results

\* Commit with the spreads swapped, [...results, ...compressionResults]: a
\* new result goes to the front.
Commit_Prepends(results, filePath, outcome) ==
  IF outcome.kind = "resolved"
    THEN outcome.results \o results
    ELSE <<Result(filePath, FALSE,
                  IF outcome.kind = "error" THEN outcome.message
                  ELSE "Unknown error")>> \o results

\* Commit with a catch block that pushes {path, success: true}.
Commit_FailureUnmarked(results, filePath, outcome) ==
  IF outcome.kind = "resolved"
    THEN results \o outcome.results
    ELSE Append(results, Result(filePath, TRUE, NoError))

\* The try / catch around the awaited call (lines 156-166): the new value of
\* compressionResults once the call for filePath settled with outcome.
Commit(results, filePath, outcome) ==
  IF outcome.kind = "resolved"
    THEN results \o outcome.results
    ELSE Append(results,
                Result(filePath, FALSE,
                       IF outcome.kind = "error" THEN outcome.message
                       ELSE "Unknown error"))

\* RemoveInFlight with the filter left out: the path stays in the list.
RemoveInFlight_Keeps(inFlight, filePath) == inFlight

\* currentlyProcessing.filter(p => p !== filePath) (line 169)
RemoveInFlight(inFlight, filePath) == Without(inFlight, filePath)

\* handleCompress() behind a Compress button that an empty selection does
\* not disable.
HandleCompress_NotDisabled ==
  /\ currentStep = "confirm"
  /\ ~compressing
  /\ IF Len(selectedFiles) = 0
       THEN /\ error' = "Please select files to compress"
            /\ UNCHANGED <<currentStep, compressing, compressionResults,
                           processedCount, currentlyProcessing, totalToProcess,
                           frameVars>>
       ELSE LET files == selectedFiles
                plg == GetActivePlugins(availablePlugins, activePlugins)
                st == StartWorkers(
                        PoolState(0, <<>>, [w \in 1..poolSize |-> "new"],
                                  [w \in 1..poolSize |-> -1], <<>>),
                        0, poolSize, files, plg)
            IN /\ currentStep' = "process"
               /\ compressing' = TRUE
               /\ error' = NULL
               /\ compressionResults' = <<>>
               /\ processedCount' = 0
               /\ filesToCompress' = files
               /\ totalToProcess' = Len(files)
               /\ plugins' = plg
               /\ fileIndex' = st.fileIndex
               /\ currentlyProcessing' = st.currentlyProcessing
               /\ workerPc' = st.workerPc
               /\ workerIndex' = st.workerIndex
               /\ calls' = st.calls
  /\ UNCHANGED <<scanPaths, mounted, availablePlugins, activePlugins, scanning,
                 compressibleFiles, rejectedFiles, selectedFiles, poolSize>>
  /\ UNCHANGED <<localStorage, selectorVars, callVars>>

\* handleCompress() with the cursor declared as "let fileIndex = 1".
HandleCompress_CursorFromOne ==
  /\ currentStep = "confirm"
  /\ ~compressing
  /\ selectedFiles # <<>>
  /\ IF Len(selectedFiles) = 0
       THEN /\ error' = "Please select files to compress"
            /\ UNCHANGED <<currentStep, compressing, compressionResults,
                           processedCount, currentlyProcessing, totalToProcess,
                           frameVars>>
       ELSE LET files == selectedFiles
                plg == GetActivePlugins(availablePlugins, activePlugins)
                st == StartWorkers(
                        PoolState(1, <<>>, [w \in 1..poolSize |-> "new"],
                                  [w \in 1..poolSize |-> -1], <<>>),
                        0, poolSize, files, plg)
            IN /\ currentStep' = "process"
               /\ compressing' = TRUE
               /\ error' = NULL
               /\ compressionResults' = <<>>
               /\ processedCount' = 0
               /\ filesToCompress' = files
               /\ totalToProcess' = Len(files)
               /\ plugins' = plg
               /\ fileIndex' = st.fileIndex
               /\ currentlyProcessing' = st.currentlyProcessing
               /\ workerPc' = st.workerPc
               /\ workerIndex' = st.workerIndex
               /\ calls' = st.calls
  /\ UNCHANGED <<scanPaths, mounted, availablePlugins, activePlugins, scanning,
                 compressibleFiles, rejectedFiles, selectedFiles, poolSize>>
  /\ UNCHANGED <<localStorage, selectorVars, callVars>>

\* handleCompress() up to await Promise.all(pool).  The Compress button is
\* disabled while compressing and with an empty selection.
HandleCompress ==
  /\ currentStep = "confirm"
  /\ ~compressing
  /\ selectedFiles # <<>>
  /\ IF Len(selectedFiles) = 0
       THEN /\ error' = "Please select files to compress"
            /\ UNCHANGED <<currentStep, compressing, compressionResults,
                           processedCount, currentlyProcessing, totalToProcess,
                           frameVars>>
       ELSE LET files == selectedFiles
                plg == GetActivePlugins(availablePlugins, activePlugins)
                st == StartWorkers(
                        PoolState(0, <<>>, [w \in 1..poolSize |-> "new"],
                                  [w \in 1..poolSize |-> -1], <<>>),
                        0, poolSize, files, plg)
            IN /\ currentStep' = "process"
               /\ compressing' = TRUE
               /\ error' = NULL
               /\ compressionResults' = <<>>
               /\ processedCount' = 0
               /\ filesToCompress' = files
               /\ totalToProcess' = Len(files)
               /\ plugins' = plg
               /\ fileIndex' = st.fileIndex
               /\ currentlyProcessing' = st.currentlyProcessing
               /\ workerPc' = st.workerPc
               /\ workerIndex' = st.workerIndex
               /\ calls' = st.calls
  /\ UNCHANGED <<scanPaths, mounted, availablePlugins, activePlugins, scanning,
                 compressibleFiles, rejectedFiles, selectedFiles, poolSize>>
  /\ UNCHANGED <<localStorage, selectorVars, callVars>>

\* WorkerSettle with a catch block that also reports the failure as the
\* page's error.
WorkerSettle_Escalates(w, outcome) ==
  /\ w \in DOMAIN workerPc
  /\ workerPc[w] = "call"
  /\ LET filePath == filesToCompress[workerIndex[w] + 1]
     IN /\ outcome \in CompressOutcomes(<<filePath>>)
        /\ compressionResults' = Commit(compressionResults, filePath, outcome)
        /\ currentlyProcessing' = RemoveInFlight(currentlyProcessing, filePath)
  /\ error' = IF outcome.kind = "error" THEN outcome.message
              ELSE IF outcome.kind = "thrown" THEN "Failed to compress files"
              ELSE error
  /\ processedCount' = processedCount + 1
  /\ calls' = [k \in DOMAIN calls |->
                 IF calls[k].index = workerIndex[w] /\ calls[k].settled = Pending
                 THEN [calls[k] EXCEPT !.settled = outcome] ELSE calls[k]]
  /\ workerPc' = [workerPc EXCEPT ![w] = "delay"]
  /\ UNCHANGED <<scanPaths, mounted, availablePlugins, activePlugins,
                 scanning, compressibleFiles, rejectedFiles, selectedFiles,
                 compressing, poolSize, totalToProcess, currentStep,
                 filesToCompress, plugins, fileIndex, workerIndex>>
  /\ UNCHANGED <<localStorage, selectorVars, callVars>>

\* worker w after its awaited call settled with outcome: lines 158-171, up to
\* the await of the 10 ms timer.
WorkerSettle(w, outcome) ==
  /\ w \in DOMAIN workerPc
  /\ workerPc[w] = "call"
  /\ LET filePath == filesToCompress[workerIndex[w] + 1]
     IN /\ outcome \in CompressOutcomes(<<filePath>>)
        /\ compressionResults' = Commit(compressionResults, filePath, outcome)
        /\ currentlyProcessing' = RemoveInFlight(currentlyProcessing, filePath)
  /\ processedCount' = processedCount + 1
  /\ calls' = [k \in DOMAIN calls |->
                 IF calls[k].index = workerIndex[w] /\ calls[k].settled = Pending
                 THEN [calls[k] EXCEPT !.settled = outcome] ELSE calls[k]]
  /\ workerPc' = [workerPc EXCEPT ![w] = "delay"]
  /\ UNCHANGED <<scanPaths, error, mounted, availablePlugins, activePlugins,
                 scanning, compressibleFiles, rejectedFiles, selectedFiles,
                 compressing, poolSize, totalToProcess, currentStep,
                 filesToCompress, plugins, fileIndex, workerIndex>>
  /\ UNCHANGED <<localStorage, selectorVars, callVars>>

\* worker w after its timer fired: back to the test of the while loop.
WorkerWake(w) ==
  /\ w \in DOMAIN workerPc
  /\ workerPc[w] = "delay"
  /\ LET st == WorkerLoop(PoolState(fileIndex, currentlyProcessing, workerPc,
                                    workerIndex, calls),
                          w, filesToCompress, plugins)
     IN /\ fileIndex' = st.fileIndex
        /\ currentlyProcessing' = st.currentlyProcessing
        /\ workerPc' = st.workerPc
        /\ workerIndex' = st.workerIndex
        /\ calls' = st.calls
  /\ UNCHANGED <<scanPaths, error, mounted, availablePlugins, activePlugins,
                 scanning, compressibleFiles, rejectedFiles, selectedFiles,
                 compressing, compressionResults, poolSize, processedCount,
                 totalToProcess, currentStep, filesToCompress, plugins>>
  /\ UNCHANGED <<localStorage, selectorVars, callVars>>

\* AllWorkersDone for a pool awaited with Promise.race: one terminated worker
\* is enough.
AllWorkersDone_Any == \E w \in DOMAIN workerPc : workerPc[w] = "done"

\* Promise.all(pool) is fulfilled: every worker has returned.
AllWorkersDone == \A w \in DOMAIN workerPc : workerPc[w] = "done"

\* PoolSettled with a finally block that also resets the progress count.
PoolSettled_ResetsCount ==
  /\ compressing
  /\ AllWorkersDone
  /\ compressing' = FALSE
  /\ currentlyProcessing' = <<>>
  /\ processedCount' = 0
  /\ filesToCompress' = <<>>
  /\ plugins' = <<>>
  /\ fileIndex' = 0
  /\ workerPc' = <<>>
  /\ workerIndex' = <<>>
  /\ calls' = <<>>
  /\ UNCHANGED <<scanPaths, error, mounted, availablePlugins, activePlugins,
                 scanning, compressibleFiles, rejectedFiles, selectedFiles,
                 compressionResults, poolSize, totalToProcess,
                 currentStep>>
  /\ UNCHANGED <<localStorage, selectorVars, callVars>>

\* handleCompress() after await Promise.all(pool): every worker promise is
\* fulfilled (a worker catches whatever its call throws, so none rejects and
\* the catch of line 180 is not entered), the finally block runs and the
\* function returns, which ends the life of its locals.
PoolSettled ==
  /\ compressing
  /\ AllWorkersDone
  /\ compressing' = FALSE
  /\ currentlyProcessing' = <<>>
  /\ filesToCompress' = <<>>
  /\ plugins' = <<>>
  /\ fileIndex' = 0
  /\ workerPc' = <<>>
  /\ workerIndex' = <<>>
  /\ calls' = <<>>
  /\ UNCHANGED <<scanPaths, error, mounted, availablePlugins, activePlugins,
                 scanning, compressibleFiles, rejectedFiles, selectedFiles,
                 compressionResults, poolSize, processedCount, totalToProcess,
                 currentStep>>
  /\ UNCHANGED <<localStorage, selectorVars, callVars>>

\* ----------------------------------------------------------------- Next
\* The values of a slider declared with min="0".
PoolSizes_FromZero == 0..Min(MaxPool, PoolSizeMax)

\* The values of the slider of the confirm step, as far as explored.
PoolSizes == PoolSizeMin..Min(MaxPool, PoolSizeMax)

Workers == 1..Min(MaxPool, PoolSizeMax)

AllCompressOutcomes == UNION { CompressOutcomes(<<f>>) : f \in Files }

Next ==
  \/ \E path \in ScanRoots : \E writes \in StorageWrites : AddScanPath(path, writes)
  \/ \E writes \in StorageWrites : ClearScanPaths(writes)
  \/ MountLoaded
  \/ MountFailed
  \/ \E name \in Range(PluginCatalog) : TogglePlugin(name)
  \/ \E index \in 0..(Len(PluginCatalog) - 1) : MovePluginUp(index)
  \/ \E index \in 0..(Len(PluginCatalog) - 1) : MovePluginDown(index)
  \/ HandleScan
  \/ \E result \in ScanOutcomes : ScanResolved(result)
  \/ \E message \in ErrorMessages \cup {NoError} : ScanRejected(message)
  \/ \E path \in Files : ToggleFileSelection(path)
  \/ ToggleAllFiles
  \/ GoToConfirm
  \/ OnBack
  \/ \E size \in PoolSizes : OnPoolSizeChange(size)
  \/ HandleCompress
  \/ \E w \in Workers : \E outcome \in AllCompressOutcomes : WorkerSettle(w, outcome)
  \/ \E w \in Workers : WorkerWake(w)
  \/ PoolSettled
  \/ StartNewScan

Spec == Init /\ [][Next]_vars

\* Some pending compressFilesInPlace call settles, some pending 10 ms timer
\* fires, and the continuation of a settled Promise.all runs.
Fairness ==
  /\ WF_vars(\E w \in Workers : \E outcome \in AllCompressOutcomes :
                WorkerSettle(w, outcome))
  /\ WF_vars(\E w \in Workers : WorkerWake(w))
  /\ WF_vars(PoolSettled)

FairSpec == Spec /\ Fairness

\* ----------------------------------------------------- the path selector
\* What handlePathAdded reads and writes: the store's scanPaths, the
\* selector's invalidPaths, and the items of localStorage.
SelectorState(paths, invalid, items) ==
  [scanPaths |-> paths, invalidPaths |-> invalid, localStorage |-> items]

\* if (!invalidPaths.some(ip => ip.path === path))
\*   invalidPaths = [...invalidPaths, { path, validation }]
AddInvalid(invalid, path, validation) ==
  IF \E i \in DOMAIN invalid : invalid[i].path = path THEN invalid
  ELSE Append(invalid, [path |-> path, validation |-> validation])

\* validation.hasSubpaths.forEach(subpath => ...): each removed sub-path is
\* validated against newPaths and moved to the invalid list.
RECURSIVE MoveSubpaths(_, _, _)
MoveSubpaths(invalid, subpaths, newPaths) ==
  IF subpaths = <<>> THEN invalid
  ELSE MoveSubpaths(AddInvalid(invalid, Head(subpaths),
                               ValidatePath(Head(subpaths), newPaths)),
                    Tail(subpaths), newPaths)

\* handlePathAdded(path, hasSubpaths) of the path selector; appState.validatePath
\* validates against the store's current scanPaths, appState.setScanPaths
\* replaces them and saves them.
HandlePathAdded(st, path, writes) ==
  LET validation == ValidatePath(path, st.scanPaths)
  IN IF \/ validation.isValid
        \/ /\ Len(validation.hasSubpaths) > 0
           /\ ~validation.isDuplicate
           /\ Len(validation.isSubpathOf) = 0
       THEN LET newPaths ==
                  Append(SelectSeq(st.scanPaths,
                                   LAMBDA p : ~Contains(validation.hasSubpaths, p)),
                         path)
            IN SelectorState(newPaths,
                             MoveSubpaths(st.invalidPaths, validation.hasSubpaths,
                                          newPaths),
                             SaveToStorage(st.localStorage, SCAN_PATHS, newPaths,
                                           writes))
       ELSE SelectorState(st.scanPaths,
                          AddInvalid(st.invalidPaths, path, validation),
                          st.localStorage)

\* handlePathSelection(path) of the path input: both of its branches hand
\* the path to onPathAdded, which is handlePathAdded.
HandlePathSelection(st, path, writes) == HandlePathAdded(st, path, writes)

\* pathsToProcess.forEach(path => handlePathSelection(path)); writes[i] tells
\* whether the i-th call can write to localStorage.
RECURSIVE ProcessPaths(_, _, _)
ProcessPaths(st, pathsToProcess, writes) ==
  IF pathsToProcess = <<>> THEN st
  ELSE ProcessPaths(HandlePathSelection(st, Head(pathsToProcess), Head(writes)),
                    Tail(pathsToProcess), Tail(writes))

\* The user edits the text field to text; the $effect of the path input
\* validates what was typed.
TypePath(text) ==
  /\ text # inputPath
  /\ inputPath' = text
  /\ pathValidation' = IF Trim(text) # <<>>
                         THEN <<ValidatePath(Trim(text), scanPaths)>>
                         ELSE <<>>
  /\ UNCHANGED <<scanPaths, error, pageVars, frameVars, callVars, localStorage,
                 invalidPaths>>

\* handleAddPath(): the Add button or the Enter key of the text field.
HandleAddPath(writes) ==
  /\ Trim(inputPath) # <<>>
  /\ LET st == HandlePathSelection(
                  SelectorState(scanPaths, invalidPaths, localStorage),
                  Trim(inputPath), writes)
     IN /\ Len(st.invalidPaths) <= MaxInvalid
        /\ scanPaths' = st.scanPaths
        /\ invalidPaths' = st.invalidPaths
        /\ localStorage' = st.localStorage
  /\ inputPath' = <<>>
  /\ pathValidation' = <<>>
  /\ UNCHANGED <<error, pageVars, frameVars, callVars>>

\* selectFolder() after the folder dialog returned selected; it empties the
\* text field, and the $effect then clears the validation.
SelectFolder(selected, writes) ==
  /\ selected # <<>>
  /\ LET st == ProcessPaths(SelectorState(scanPaths, invalidPaths, localStorage),
                            selected, writes)
     IN /\ Len(st.invalidPaths) <= MaxInvalid
        /\ scanPaths' = st.scanPaths
        /\ invalidPaths' = st.invalidPaths
        /\ localStorage' = st.localStorage
  /\ inputPath' = <<>>
  /\ pathValidation' = <<>>
  /\ UNCHANGED <<error, pageVars, frameVars, callVars>>

\* removePath(path): appState.removeScanPath(path), from an entry of the
\* path list.
RemovePath(path, writes) ==
  /\ Contains(scanPaths, path)
  /\ LET newPaths == Without(scanPaths, path)
     IN /\ localStorage' = SaveToStorage(localStorage, SCAN_PATHS, newPaths, writes)
        /\ scanPaths' = newPaths
  /\ UNCHANGED <<error, pageVars, frameVars, callVars, selectorVars>>

\* removeInvalidPath(path), from an entry of the invalid path list.
RemoveInvalidPath(path) ==
  /\ \E i \in DOMAIN invalidPaths : invalidPaths[i].path = path
  /\ invalidPaths' = SelectSeq(invalidPaths, LAMBDA ip : ip.path # path)
  /\ UNCHANGED <<scanPaths, error, pageVars, frameVars, callVars, localStorage,
                 inputPath, pathValidation>>

\* clearAllPaths(); the path list shows "Clear all" when it has a path.
ClearAllPaths(writes) ==
  /\ scanPaths # <<>>
  /\ localStorage' = SaveToStorage(localStorage, SCAN_PATHS, <<>>, writes)
  /\ scanPaths' = <<>>
  /\ invalidPaths' = <<>>
  /\ UNCHANGED <<error, pageVars, frameVars, callVars, inputPath, pathValidation>>

\* clearInvalidPaths(), from the invalid path list when it has an entry.
ClearInvalidPaths ==
  /\ invalidPaths # <<>>
  /\ invalidPaths' = <<>>
  /\ UNCHANGED <<scanPaths, error, pageVars, frameVars, callVars, localStorage,
                 inputPath, pathValidation>>

\* What the folder dialog can return: one to MaxSelected distinct folders.
Selections ==
  { sel \in UNION { [1..n -> PathCandidates] : n \in 1..MaxSelected } :
      NoDuplicates(sel) }

PathNext ==
  \/ \E text \in TypedTexts : TypePath(text)
  \/ \E writes \in StorageWrites : HandleAddPath(writes)
  \/ \E selected \in Selections :
       \E writes \in [DOMAIN selected -> StorageWrites] :
         SelectFolder(selected, writes)
  \/ \E path \in PathCandidates : \E writes \in StorageWrites :
       RemovePath(path, writes)
  \/ \E path \in PathCandidates : RemoveInvalidPath(path)
  \/ \E writes \in StorageWrites : ClearAllPaths(writes)
  \/ ClearInvalidPaths

\* The path selector on its own, from a profile with nothing stored.
PathSpec == Init /\ [][PathNext]_vars

\* --------------------------------------------------- the path utilities
\* One call of an exported function: its name and what it returned.
Returned(fn, value) == <<[fn |-> fn, value |-> value]>>

\* normalizePath(args[1])
CallNormalizePath ==
  /\ returned' = Returned("normalizePath", NormalizePath(args[1]))
  /\ UNCHANGED <<scanPaths, error, pageVars, frameVars, localStorage,
                 selectorVars, args>>

\* normalizePath(normalizePath(args[1])): the function applied to what the
\* call before returned.
CallNormalizePathAgain ==
  /\ returned # <<>>
  /\ returned[1].fn = "normalizePath"
  /\ returned' = Returned("normalizePath twice", NormalizePath(returned[1].value))
  /\ UNCHANGED <<scanPaths, error, pageVars, frameVars, localStorage,
                 selectorVars, args>>

\* isSubpath(args[1], args[2])
CallIsSubpath ==
  /\ returned' = Returned("isSubpath", IsSubpath(args[1], args[2]))
  /\ UNCHANGED <<scanPaths, error, pageVars, frameVars, localStorage,
                 selectorVars, args>>

\* isParentPath(args[1], args[2])
CallIsParentPath ==
  /\ returned' = Returned("isParentPath", IsParentPath(args[1], args[2]))
  /\ UNCHANGED <<scanPaths, error, pageVars, frameVars, localStorage,
                 selectorVars, args>>

PathCallInit ==
  /\ Constructed
  /\ args \in PathStrings \X PathStrings
  /\ returned = <<>>

PathCallNext ==
  \/ CallNormalizePath
  \/ CallNormalizePathAgain
  \/ CallIsSubpath
  \/ CallIsParentPath

\* The path utilities called on their own, with any two path strings.
PathCallSpec == PathCallInit /\ [][PathCallNext]_vars

\* ------------------------------------------------ the storage utilities
\* One call of a storage utility: its name, whether the storage could be
\* accessed during it, and how it completed.
Completed(fn, works, completion) ==
  <<[fn |-> fn, works |-> works, threw |-> completion.threw,
     value |-> completion.value]>>

\* saveToStorage(key, value)
CallSaveToStorage(key, value, writes) ==
  LET completion == SaveCall(localStorage, key, value, writes)
  IN /\ args' = <<key, value>>
     /\ localStorage' = completion.value
     /\ returned' = Completed("saveToStorage", writes,
                              [completion EXCEPT !.value = <<>>])
     /\ UNCHANGED <<scanPaths, error, pageVars, frameVars, selectorVars>>

\* loadFromStorage(key, defaultValue)
CallLoadFromStorage(key, defaultValue, reads) ==
  /\ args' = <<key, defaultValue>>
  /\ returned' = Completed("loadFromStorage", reads,
                           LoadFromStorage(localStorage, key, defaultValue, reads))
  /\ UNCHANGED <<scanPaths, error, pageVars, frameVars, selectorVars,
                 localStorage>>

\* removeFromStorage(key)
CallRemoveFromStorage(key, removes) ==
  LET completion == RemoveFromStorage(localStorage, key, removes)
  IN /\ args' = <<key>>
     /\ localStorage' = completion.value
     /\ returned' = Completed("removeFromStorage", removes,
                              [completion EXCEPT !.value = <<>>])
     /\ UNCHANGED <<scanPaths, error, pageVars, frameVars, selectorVars>>

\* localStorage.setItem(key, text) by other code, with a text that is no
\* JSON (storage.test.ts: 'should return default value on parse error').
StoreText(key, text) ==
  LET completion == SetItem(localStorage, key, text, TRUE)
  IN /\ args' = <<key>>
     /\ localStorage' = completion.value
     /\ returned' = Completed("setItem", TRUE, [completion EXCEPT !.value = <<>>])
     /\ UNCHANGED <<scanPaths, error, pageVars, frameVars, selectorVars>>

StorageCallNext ==
  \/ \E key \in StorageKeys : \E value \in SavedValues : \E writes \in BOOLEAN :
       CallSaveToStorage(key, value, writes)
  \/ \E key \in StorageKeys : \E defaultValue \in DefaultValues :
       \E reads \in BOOLEAN : CallLoadFromStorage(key, defaultValue, reads)
  \/ \E key \in StorageKeys : \E removes \in BOOLEAN :
       CallRemoveFromStorage(key, removes)
  \/ \E key \in StorageKeys : \E text \in BrokenTexts : StoreText(key, text)

\* The storage utilities called on their own, from an empty storage.
StorageCallSpec == Init /\ [][StorageCallNext]_vars

\* ------------------------------------------------- the store's mutators
\* storageKeys.FILTER_CONFIG, and JSON.stringify({}).
FILTER_CONFIG == "space-saver:filterConfig"
EmptyObjectText == <<"{", "}">>

\* appState.setScanPaths(paths)
SetScanPaths_NotSaved(paths, writes) ==
  /\ UNCHANGED localStorage
  /\ scanPaths' = paths
  /\ UNCHANGED <<error, pageVars, frameVars, selectorVars, callVars>>

SetScanPaths(paths, writes) ==
  /\ localStorage' = SaveToStorage(localStorage, SCAN_PATHS, paths, writes)
  /\ scanPaths' = paths
  /\ UNCHANGED <<error, pageVars, frameVars, selectorVars, callVars>>

\* appState.removeScanPath(path), with any path.
RemoveScanPath(path, writes) ==
  LET newPaths == Without(scanPaths, path)
  IN /\ localStorage' = SaveToStorage(localStorage, SCAN_PATHS, newPaths, writes)
     /\ scanPaths' = newPaths
     /\ UNCHANGED <<error, pageVars, frameVars, selectorVars, callVars>>

\* appState.reset(): both keys are saved, then the state is set anew.
Reset(writesPaths, writesFilters) ==
  LET saved == SaveToStorage(localStorage, SCAN_PATHS, <<>>, writesPaths)
  IN /\ localStorage' = Catch(SetItem(saved, FILTER_CONFIG, EmptyObjectText,
                                      writesFilters), saved).value
     /\ scanPaths' = <<>>
     /\ error' = NULL
     /\ UNCHANGED <<pageVars, frameVars, selectorVars, callVars>>

\* The lists setScanPaths is called with, and the lists a former session
\* left under the scan-paths key: up to MaxSelected of the candidates.
PathLists == UNION { [1..n -> PathCandidates] : n \in 0..MaxSelected }

\* What a profile holds under the scan-paths key when the store is created:
\* nothing, the list a former session saved, or a text that is no JSON.
StoredItems ==
  { [k \in {} |-> <<>>] }
    \cup { [k \in {SCAN_PATHS} |-> JsonStringify(paths)] : paths \in PathLists }
    \cup { [k \in {SCAN_PATHS} |-> text] : text \in BrokenTexts }

StoreInit ==
  /\ \E items \in StoredItems : CreateAppStore(items)
  /\ ConstructedPage
  /\ args = <<>>
  /\ returned = <<>>

StoreNext ==
  \/ \E paths \in PathLists : \E writes \in StorageWrites :
       SetScanPaths(paths, writes)
  \/ \E path \in PathCandidates : \E writes \in StorageWrites :
       AddScanPath(path, writes)
  \/ \E path \in PathCandidates : \E writes \in StorageWrites :
       RemoveScanPath(path, writes)
  \/ \E writes \in StorageWrites : ClearScanPaths(writes)
  \/ \E writesPaths \in StorageWrites : \E writesFilters \in StorageWrites :
       Reset(writesPaths, writesFilters)

\* The store's mutators of scanPaths called on their own.
StoreSpec == StoreInit /\ [][StoreNext]_vars

\* =================================================================
\* Properties of the worker pool
\* =================================================================
ResultPaths(results) == [i \in DOMAIN results |-> results[i].path]

\* results accounts for paths: one entry per path, none twice, none missing.
CompleteFor(results, paths) ==
  /\ Len(results) = Len(paths)
  /\ Range(ResultPaths(results)) = Range(paths)
  /\ NoDuplicates(ResultPaths(results))

\* A call that settled as a failure: it threw, or it returned a result with
\* success = false.
Failed(outcome) ==
  \/ outcome.kind \in {"error", "thrown"}
  \/ outcome.kind = "resolved" /\ \E i \in DOMAIN outcome.results :
                                     ~outcome.results[i].success

\* The entries of results for one path.
EntriesFor(results, path) == SelectSeq(results, LAMBDA r : r.path = path)

\* C1 (completeness): for a plan of N distinct paths and a pool size P in
\* 1..20, P smaller or larger than N, the step that completes the run
\* (compressing becomes false) leaves results with exactly N entries whose
\* paths are the plan's paths, none twice and none missing.
C1_Completeness ==
  [][(compressing /\ ~compressing') =>
       /\ NoDuplicates(filesToCompress)
       /\ Len(workerPc) \in PoolSizeMin..PoolSizeMax
       /\ CompleteFor(compressionResults', filesToCompress)]_vars

\* A run of more paths than workers has completed.
C1_Witness ==
  /\ currentStep = "process"
  /\ ~compressing
  /\ totalToProcess >= 2
  /\ poolSize < totalToProcess
  /\ Len(compressionResults) = totalToProcess

\* C2 (concurrency bound): in every state the number of in-flight paths is at
\* most min(P, N), P the number of workers of the run (the pool size) and N
\* the length of the plan.
C2_ConcurrencyBound ==
  /\ Len(currentlyProcessing) <= Min(Len(workerPc), Len(filesToCompress))
  /\ compressing => Len(workerPc) = poolSize

\* The bound is attained: two workers have a path in flight each.
C2_Witness ==
  /\ compressing
  /\ poolSize >= 2
  /\ Len(currentlyProcessing) = Min(poolSize, totalToProcess)
  /\ Len(currentlyProcessing) >= 2

\* C3 (exactly-once claim): the calls of a run carry pairwise different
\* indices, the k-th call is for index k-1 and for that index's path, no two
\* workers hold the same index at once, and when every worker has terminated
\* every index of the plan has been dispatched.
C3_ExactlyOnceClaim ==
  /\ NoDuplicates([k \in DOMAIN calls |-> calls[k].index])
  /\ \A k \in DOMAIN calls :
       /\ calls[k].index = k - 1
       /\ calls[k].index < Len(filesToCompress)
       /\ calls[k].filePaths = <<filesToCompress[calls[k].index + 1]>>
  /\ \A v, w \in DOMAIN workerPc :
       (workerPc[v] = "call" /\ workerPc[w] = "call" /\ v # w)
         => workerIndex[v] # workerIndex[w]
  /\ (compressing /\ AllWorkersDone) =>
       {calls[k].index : k \in DOMAIN calls} = 0..(Len(filesToCompress) - 1)

\* Two workers have shared the indices of a plan and terminated.
C3_Witness ==
  /\ compressing
  /\ AllWorkersDone
  /\ Len(workerPc) >= 2
  /\ Len(calls) >= 2

C5_Termination == compressing ~> ~compressing

\* A run of several paths on one worker has terminated.
C5_Witness ==
  /\ currentStep = "process"
  /\ ~compressing
  /\ poolSize = 1
  /\ processedCount >= 2

\* C6 (completion state): when every worker has terminated, and from the
\* moment compressing is set to false for as long as the page stays in the
\* process step, processedCount equals the plan length (totalToProcess) and
\* the in-flight list is empty, whatever the calls returned.
C6_CompletionState ==
  /\ compressing => totalToProcess = Len(filesToCompress)
  /\ (compressing /\ AllWorkersDone) =>
       /\ processedCount = Len(filesToCompress)
       /\ currentlyProcessing = <<>>
  /\ (currentStep = "process" /\ ~compressing) =>
       /\ processedCount = totalToProcess
       /\ totalToProcess > 0
       /\ currentlyProcessing = <<>>

\* A run in which every item failed is complete.
C6_Witness ==
  /\ currentStep = "process"
  /\ ~compressing
  /\ processedCount >= 2
  /\ \A i \in DOMAIN compressionResults : ~compressionResults[i].success

\* C7: in every state processedCount is the length of compressionResults:
\* each settled call adds one to both, whether it returned its result, returned
\* a failure or threw.
C7_CountIsLength == processedCount = Len(compressionResults)

\* A run is under way with one call that threw and one that returned.
C7_Witness ==
  /\ compressing
  /\ processedCount >= 2
  /\ \E k \in DOMAIN calls : calls[k].settled.kind \in {"error", "thrown"}
  /\ \E k \in DOMAIN calls : calls[k].settled.kind = "resolved"

\* C8 (append-only results): every step other than startNewScan leaves the
\* entries of compressionResults in place and at most appends to them, and a
\* step that commits a path appends exactly one entry, at the end, for the
\* path that leaves the in-flight list in that step.
C8_AppendOnly ==
  [][\/ currentStep = "process" /\ currentStep' = "scan"
     \/ /\ IsPrefix(compressionResults, compressionResults')
        /\ processedCount' # processedCount =>
             /\ Len(compressionResults') = Len(compressionResults) + 1
             /\ compressionResults'[Len(compressionResults')].path
                  \in Range(currentlyProcessing) \ Range(currentlyProcessing')]_vars

\* Results were committed in an order that is not the plan order.
C8_Witness ==
  /\ compressing
  /\ Len(compressionResults) >= 2
  /\ compressionResults[1].path = filesToCompress[2]
  /\ compressionResults[2].path = filesToCompress[1]

\* C9 (cursor): fileIndex is always within 0..N and equals the number of
\* claims made so far, and during a run no step decreases it and every step
\* that changes it adds exactly one and issues exactly one call.
C9_Cursor ==
  /\ [](/\ fileIndex \in 0..Len(filesToCompress)
        /\ fileIndex = Len(calls))
  /\ [][(compressing /\ compressing') =>
          /\ fileIndex' \in {fileIndex, fileIndex + 1}
          /\ Len(calls') = Len(calls) + (fileIndex' - fileIndex)]_vars

\* The one worker of a pool has advanced the cursor to the end of its plan,
\* one claim after the other.
C9_Witness ==
  /\ compressing
  /\ Len(workerPc) = 1
  /\ Len(filesToCompress) >= 2
  /\ fileIndex = Len(filesToCompress)

\* C10: a call that throws yields exactly one result {success: false, path,
\* error} for its path, error being the Error's message or "Unknown error";
\* the worker stays in its loop (a worker terminates only when the cursor is
\* at N); and appState.error is null throughout the process step.
C10_ThrowIsRecorded ==
  /\ \A k \in DOMAIN calls :
       calls[k].settled.kind \in {"error", "thrown"} =>
         EntriesFor(compressionResults, calls[k].filePaths[1]) =
           <<Result(calls[k].filePaths[1], FALSE,
                    IF calls[k].settled.kind = "error"
                    THEN calls[k].settled.message ELSE "Unknown error")>>
  /\ \A w \in DOMAIN workerPc :
       /\ workerPc[w] \in {"call", "delay", "done"}
       /\ workerPc[w] = "done" => fileIndex = Len(filesToCompress)
  /\ currentStep = "process" => error = NULL

\* The only worker of a pool has claimed the next index after a call that
\* threw.
C10_Witness ==
  /\ compressing
  /\ Len(workerPc) = 1
  /\ Len(calls) >= 2
  /\ calls[1].settled.kind \in {"error", "thrown"}
  /\ workerPc[1] = "call"

\* =================================================================
\* Properties of the workflow
\* =================================================================
\* C11 (error handling), as the claim states it: a compressFilesInPlace call
\* that throws (the engine being unreachable) is fatal to the run and is
\* reported as a run-level error, and it leaves no entry in results.
C11_PoolLevelFailure ==
  \A k \in DOMAIN calls :
    calls[k].settled.kind \in {"error", "thrown"} =>
      /\ error # NULL
      /\ EntriesFor(compressionResults, calls[k].filePaths[1]) = <<>>

\* C12 (temporal): while a run is active (processedCount < totalToProcess)
\* the page is in the process step and compressing, and every step leaves
\* currentStep, the selection, the candidate list and the pool size alone.
C12_StaysInProcess ==
  [][processedCount < totalToProcess =>
       /\ currentStep = "process" /\ compressing
       /\ currentStep' = "process"
       /\ UNCHANGED <<selectedFiles, compressibleFiles, rejectedFiles, poolSize>>]_vars

C12_Witness ==
  /\ compressing
  /\ totalToProcess = 2
  /\ processedCount = 1
  /\ Len(compressionResults) = 1

C14_ConfirmToProcess ==
  [][currentStep = "confirm" =>
       /\ (currentStep' = "process" =>
              /\ selectedFiles # <<>>
              /\ filesToCompress' = selectedFiles
              /\ totalToProcess' = Len(selectedFiles)
              /\ compressing'
              /\ DOMAIN workerPc' = 1..poolSize
              /\ \A w \in DOMAIN workerPc' : workerPc'[w] \in {"call", "done"}
              /\ Len(calls') = Min(poolSize, Len(selectedFiles)))
       /\ (selectedFiles = <<>> => currentStep' # "process" /\ ~compressing')]_vars

C14_Witness ==
  /\ currentStep = "process"
  /\ compressing
  /\ Len(compressibleFiles) = 2
  /\ totalToProcess = 1
  /\ poolSize # PoolSizeDefault
  /\ processedCount = 0

\* C15 (safety): the step from process to scan is taken only when the run is
\* over, and it empties the counters, the in-flight list, the results, the
\* candidate list, the rejected list and the selection.
C15_StartNewScanEmpties ==
  [][(currentStep = "process" /\ currentStep' = "scan") =>
       /\ ~compressing
       /\ processedCount' = 0
       /\ totalToProcess' = 0
       /\ currentlyProcessing' = <<>>
       /\ compressionResults' = <<>>
       /\ compressibleFiles' = <<>>
       /\ rejectedFiles' = <<>>
       /\ selectedFiles' = <<>>]_vars

\* The scan step as startNewScan leaves it: both lists are empty without a
\* scan running or having failed, after the pool size was changed in a
\* confirm step.
C15_Witness ==
  /\ currentStep = "scan"
  /\ ~scanning
  /\ error = NULL
  /\ poolSize # PoolSizeDefault
  /\ compressibleFiles = <<>>
  /\ rejectedFiles = <<>>
  /\ selectedFiles = <<>>
  /\ compressionResults = <<>>
  /\ processedCount = 0
  /\ totalToProcess = 0

\* C16 (frame effect): in the confirm step going back is always possible, and
\* the step from confirm to scan leaves the selection, the candidate list, the
\* rejected list and the pool size as they were.
C16_BackChangesOnlyStep ==
  /\ [](currentStep = "confirm" => ENABLED OnBack)
  /\ [][(currentStep = "confirm" /\ currentStep' = "scan") =>
          UNCHANGED <<selectedFiles, compressibleFiles, rejectedFiles, poolSize>>]_vars

C16_Witness ==
  /\ currentStep = "scan"
  /\ poolSize # PoolSizeDefault
  /\ Len(compressibleFiles) = 2
  /\ Len(selectedFiles) = 1
  /\ rejectedFiles = <<>>
  /\ compressionResults = <<>>

\* C17 (frame effect): the step that starts a run takes the selection, the
\* active plugins in their order and poolSize workers as the plan; while the
\* run goes on the plan does not change, and every call of the run carries
\* the plan's plugin order and the plan's path for its index.
C17_PlanIsSnapshot ==
  [][/\ (~compressing /\ compressing') =>
          /\ filesToCompress' = selectedFiles
          /\ plugins' = SelectSeq(availablePlugins, LAMBDA p : p \in activePlugins)
          /\ DOMAIN workerPc' = 1..poolSize
     /\ (compressing /\ compressing') =>
          /\ filesToCompress' = filesToCompress
          /\ plugins' = plugins
          /\ DOMAIN workerPc' = DOMAIN workerPc
     /\ compressing' =>
          \A k \in DOMAIN calls' :
            /\ calls'[k].pluginOrders = plugins'
            /\ calls'[k].filePaths = <<filesToCompress'[calls'[k].index + 1]>>]_vars

C17_Witness ==
  /\ compressing
  /\ Len(calls) = 2
  /\ Len(plugins) = 2
  /\ plugins # PluginCatalog
  /\ poolSize = 1
  /\ calls[1].settled # Pending

\* C25 (error handling): when the scan call fails, handleScan puts a message
\* in appState.error and ends scanning with the candidate list and the
\* selection empty and the workflow in the scan step; and from an empty
\* candidate list the workflow stays in the scan step, the list being filled
\* only by a scan that succeeds.
C25_ScanFailure ==
  [][/\ \A message \in ErrorMessages \cup {NoError} :
          ScanRejected(message) =>
            /\ error' # NULL
            /\ error' = (IF message # NoError THEN message
                         ELSE "Failed to scan files")
            /\ ~scanning'
            /\ compressibleFiles' = <<>>
            /\ selectedFiles' = <<>>
            /\ currentStep' = "scan"
            /\ filesToCompress' = <<>>
     /\ (compressibleFiles = <<>> /\ currentStep = "scan") =>
          /\ currentStep' = "scan"
          /\ compressibleFiles' # <<>> =>
               \E result \in ScanOutcomes : ScanResolved(result)]_vars

\* A scan with paths and plugins configured has failed with a value that is
\* no Error: the fallback message is set, scanning has ended and the
\* candidate list is empty.
C25_Witness ==
  /\ error = "Failed to scan files"
  /\ ~scanning
  /\ scanPaths # <<>>
  /\ activePlugins # {}
  /\ compressibleFiles = <<>>
  /\ selectedFiles = <<>>
  /\ currentStep = "scan"

C27_FrozenAfterCompletion ==
  [][(currentStep = "process" /\ processedCount = totalToProcess) =>
       \/ UNCHANGED <<compressionResults, processedCount, currentlyProcessing>>
       \/ StartNewScan]_vars

\* A run of two files has completed and its handler has returned: the
\* progress shows 2 of 2 with nothing in flight.
C27_Witness ==
  /\ currentStep = "process"
  /\ ~compressing
  /\ totalToProcess = 2
  /\ processedCount = 2
  /\ Len(compressionResults) = 2
  /\ currentlyProcessing = <<>>

\* C28 (concurrency), as the claim states it: the compress call is the only
\* suspension point of the worker loop, so the step in which a worker's call
\* returns takes that worker to its next claim or to its termination.
C28_OnlyCallSuspends ==
  [][\A w \in Workers : \A outcome \in AllCompressOutcomes :
       WorkerSettle(w, outcome) =>
         \/ workerPc'[w] = "done"
         \/ /\ workerPc'[w] = "call"
            /\ workerIndex'[w] > workerIndex[w]]_vars

\* C29 (concurrency): in a run whose pool is larger than its plan (P > N)
\* exactly N claims are made, the one claim of worker w (w <= N) being index
\* w - 1, which it holds until it terminates; and each of the other P - N
\* workers has terminated, without a claim, when handleCompress first
\* suspends, so none of them is waiting.
C29_PoolLargerThanPlan ==
  LET P == Len(workerPc)
      N == Len(filesToCompress)
  IN (compressing /\ P > N) =>
       /\ Len(calls) = N
       /\ fileIndex = N
       /\ \A k \in DOMAIN calls : calls[k].index = k - 1
       /\ \A w \in 1..N :
            \/ workerPc[w] = "done" /\ workerIndex[w] = -1
            \/ workerPc[w] \in {"call", "delay"} /\ workerIndex[w] = w - 1
       /\ \A w \in (N + 1)..P : workerPc[w] = "done" /\ workerIndex[w] = -1

\* A pool of two runs a plan of one file: worker 1 awaits its call and
\* worker 2 has returned.
C29_Witness ==
  /\ compressing
  /\ Len(workerPc) = 2
  /\ Len(filesToCompress) = 1
  /\ workerPc = <<"call", "done">>
  /\ workerIndex = <<0, -1>>
  /\ Len(calls) = 1

\* C30 (temporal): in a run with a pool of one worker at most one path is in
\* flight, the results are those of the first processedCount paths of the
\* plan in plan order, the path in flight is the next one of the plan, and
\* every step of the run that changes the results or processedCount adds one
\* result and one to processedCount, which goes from 0 to N.
C30_SequentialRun ==
  /\ []((compressing /\ Len(workerPc) = 1) =>
          /\ Len(currentlyProcessing) <= 1
          /\ processedCount \in 0..Len(filesToCompress)
          /\ ResultPaths(compressionResults) =
               SubSeq(filesToCompress, 1, processedCount)
          /\ currentlyProcessing # <<>> =>
               currentlyProcessing = <<filesToCompress[processedCount + 1]>>)
  /\ [][(compressing /\ compressing' /\ Len(workerPc) = 1 /\
         <<compressionResults, processedCount>>' #
           <<compressionResults, processedCount>>) =>
          /\ processedCount' = processedCount + 1
          /\ Len(compressionResults') = Len(compressionResults) + 1]_vars
  /\ [][(~compressing /\ compressing') => processedCount' = 0]_vars

\* The one worker of the pool has committed the first of two paths and has
\* the second in flight.
C30_Witness ==
  /\ compressing
  /\ Len(workerPc) = 1
  /\ Len(filesToCompress) = 2
  /\ processedCount = 1
  /\ ResultPaths(compressionResults) = <<filesToCompress[1]>>
  /\ currentlyProcessing = <<filesToCompress[2]>>

\* C31 (invariant): the step that starts a run leaves compressionResults
\* empty and processedCount at 0, starts the cursor at 0, so that the calls
\* it issues are for the indices 0, 1, ... and the cursor is their number,
\* and puts exactly the paths of those calls in the in-flight list.
C31_FreshProgress ==
  [][HandleCompress =>
       /\ compressionResults' = <<>>
       /\ processedCount' = 0
       /\ fileIndex' = Len(calls')
       /\ fileIndex' = Min(poolSize, Len(selectedFiles))
       /\ \A k \in DOMAIN calls' : calls'[k].index = k - 1
       /\ currentlyProcessing' =
            [k \in DOMAIN calls' |-> calls'[k].filePaths[1]]]_vars

\* A run of two files with a pool of one has just started: nothing is
\* committed and the first path is in flight.
C31_Witness ==
  /\ compressing
  /\ compressionResults = <<>>
  /\ processedCount = 0
  /\ totalToProcess = 2
  /\ Len(workerPc) = 1
  /\ fileIndex = 1
  /\ currentlyProcessing = <<filesToCompress[1]>>

\* C32 (invariant): poolSize is an integer from PoolSizeMin to PoolSizeMax in
\* every state, and the workers of a run are poolSize many, at least one and
\* at most PoolSizeMax: no run is started with another pool size.
C32_ValidPoolSize ==
  /\ poolSize \in PoolSizeMin..PoolSizeMax
  /\ compressing =>
       /\ Len(workerPc) = poolSize
       /\ Len(workerPc) \in PoolSizeMin..PoolSizeMax
       /\ DOMAIN workerIndex = DOMAIN workerPc

\* A run goes on with the pool size the user has set on the slider, which
\* is not the default one.
C32_Witness ==
  /\ compressing
  /\ poolSize # PoolSizeDefault
  /\ poolSize = PoolSizeMin
  /\ Len(workerPc) = poolSize

\* C33 (temporal), as the claim states it: the pool accepts a cancellation
\* signal that the claim step checks.  While a run has an unclaimed index a
\* step is possible that is no claim and no commit (the in-flight list and
\* the results stay as they are) and after which the test of the claim
\* step, fileIndex < filesToCompress.length, fails or the run is marked as
\* no longer compressing.
C33_CancellationAccepted ==
  (compressing /\ fileIndex < Len(filesToCompress)) =>
    ENABLED (/\ Next
             /\ currentlyProcessing' = currentlyProcessing
             /\ compressionResults' = compressionResults
             /\ \/ fileIndex' >= Len(filesToCompress')
                \/ ~compressing')

\* C34 (invariant): in every state of a run the cursor is the number of
\* paths in flight plus processedCount, every claimed path of the plan is in
\* the in-flight list or has a result but not both, no unclaimed path is in
\* either, and the in-flight list holds no path twice.
C34_WorkAccounting ==
  compressing =>
    /\ fileIndex = Len(currentlyProcessing) + processedCount
    /\ NoDuplicates(currentlyProcessing)
    /\ \A i \in DOMAIN filesToCompress :
         LET inFlight == Contains(currentlyProcessing, filesToCompress[i])
             committed == Contains(ResultPaths(compressionResults),
                                   filesToCompress[i])
         IN IF i <= fileIndex THEN inFlight # committed
            ELSE ~inFlight /\ ~committed

\* Both paths of a plan are claimed: one is committed, the other in flight.
C34_Witness ==
  /\ compressing
  /\ Len(filesToCompress) = 2
  /\ fileIndex = 2
  /\ processedCount = 1
  /\ Len(currentlyProcessing) = 1
  /\ Len(compressionResults) = 1
  /\ Len(workerPc) = 2

\* C39 (invariant): in every state of the compress page the selection is a
\* subset of the paths of the current candidate list; the plan a run starts
\* with holds only candidates; and a scan that succeeds leaves every
\* candidate selected.
C39_SelectionWithinCandidates ==
  /\ [](Range(selectedFiles) \subseteq Range(compressibleFiles))
  /\ [][/\ (~compressing /\ compressing') =>
             Range(filesToCompress') \subseteq Range(compressibleFiles')
        /\ (scanning /\ ~scanning' /\ error' = NULL) =>
             Range(selectedFiles') = Range(compressibleFiles')]_vars

\* A run over one of two candidates, the other one deselected.
C39_Witness ==
  /\ compressing
  /\ Len(compressibleFiles) = 2
  /\ Len(filesToCompress) = 1
  /\ selectedFiles = filesToCompress
  /\ rejectedFiles = <<>>
  /\ processedCount = 0

\* C40 (concurrency): at most one run is active at any time.  compressing
\* is true only in the process step; while it is true handleCompress cannot
\* be started; the in-flight list is non-empty only while it is true; and
\* when it is false no worker of a former run is still going.
C40_SingleRun ==
  /\ compressing => currentStep = "process"
  /\ compressing => ~ENABLED HandleCompress
  /\ currentlyProcessing # <<>> => compressing
  /\ ~compressing => AllWorkersDone

\* A run with two paths in flight, over a selection that would enable the
\* Compress button were no run going.
C40_Witness ==
  /\ compressing
  /\ currentStep = "process"
  /\ Len(currentlyProcessing) = 2
  /\ selectedFiles # <<>>
  /\ poolSize = 2
  /\ ~ENABLED HandleCompress

\* =================================================================
\* Properties of the path set
\* =================================================================
\* Two paths are the same root: their normalized forms are equal.
NormalizedEqual(p, q) == NormalizePath(p) = NormalizePath(q)

\* Path p is a strict normalized sub-path of path q: normalized q is a proper
\* prefix of normalized p that ends at a separator boundary.
LiesBelow(p, q) ==
  LET np == NormalizePath(p)
      nq == NormalizePath(q)
  IN /\ 0 < Len(nq)
     /\ Len(nq) < Len(np)
     /\ IsPrefix(nq, np)
     /\ (nq[Len(nq)] = "/" \/ np[Len(nq) + 1] = "/")

\* C18 (invariant), as the claim states it: scanPaths never holds two
\* normalized-equal entries, nor an entry that is a normalized sub-path of
\* another entry.
C18_PathSetInvariant ==
  \A i, j \in DOMAIN scanPaths :
    i # j => /\ ~NormalizedEqual(scanPaths[i], scanPaths[j])
             /\ ~LiesBelow(scanPaths[i], scanPaths[j])

\* C19 (functional correctness), as the claim states it: the validation of
\* a typed candidate against the existing roots has isDuplicate true iff a
\* root is normalized-equal to the candidate, isSubpathOf the roots the
\* candidate is a strict sub-path of and hasSubpaths the roots that are
\* strict sub-paths of the candidate, both in the order of the roots,
\* isValid = ~isDuplicate and isSubpathOf empty, and no warning iff the
\* three findings are empty.
C19_ValidatePathContract ==
  [][(inputPath' # inputPath /\ pathValidation' # <<>>) =>
       LET candidate == Trim(inputPath')
           validation == pathValidation'[1]
       IN /\ validation.isDuplicate <=>
               \E i \in DOMAIN scanPaths : NormalizedEqual(scanPaths[i], candidate)
          /\ validation.isSubpathOf =
               SelectSeq(scanPaths, LAMBDA e : LiesBelow(candidate, e))
          /\ validation.hasSubpaths =
               SelectSeq(scanPaths, LAMBDA e : LiesBelow(e, candidate))
          /\ validation.isValid <=>
               (~validation.isDuplicate /\ validation.isSubpathOf = <<>>)
          /\ (validation.warnings = <<>>) <=>
               /\ ~validation.isDuplicate
               /\ validation.isSubpathOf = <<>>
               /\ validation.hasSubpaths = <<>>]_vars

\* C20 (functional correctness), as the claim states it: adding a valid
\* candidate leaves scanPaths as the roots that are not sub-paths of the
\* candidate, in their order, followed by the candidate.
C20_AddSubsumesChildren ==
  [][\A writes \in StorageWrites :
       (HandleAddPath(writes) /\ ValidatePath(Trim(inputPath), scanPaths).isValid) =>
         scanPaths' =
           Append(SelectSeq(scanPaths, LAMBDA e : ~LiesBelow(e, Trim(inputPath))),
                  Trim(inputPath))]_vars

\* C21 (error handling), as the claim states it: adding a candidate that is
\* normalized-equal to an existing root, or a strict sub-path of one, leaves
\* scanPaths and its stored copy as they were, and the validation of the
\* candidate carries at least one warning.
C21_RejectedOutright ==
  [][\A writes \in StorageWrites :
       (/\ HandleAddPath(writes)
        /\ \E i \in DOMAIN scanPaths :
             \/ NormalizedEqual(Trim(inputPath), scanPaths[i])
             \/ LiesBelow(Trim(inputPath), scanPaths[i])) =>
         /\ scanPaths' = scanPaths
         /\ localStorage' = localStorage
         /\ ValidatePath(Trim(inputPath), scanPaths).warnings # <<>>]_vars

\* =================================================================
\* Properties of the path utilities
\* =================================================================
\* A path string with its separators unified and its letters lower-cased.
Unified(path) ==
  [i \in DOMAIN path |-> IF path[i] = "\\" THEN "/" ELSE ToLowerCase(path[i])]

\* A root path in that form: the filesystem root, or the root of a drive.
IsRootPath(unified) ==
  \/ unified = <<"/">>
  \/ /\ Len(unified) = 3
     /\ unified[1] \notin {"/", ":"}
     /\ unified[2] = ":"
     /\ unified[3] = "/"

\* C22 (functional correctness), as the claim states it: normalizePath
\* returns the path with backslashes turned into "/", lower-cased, and
\* without one trailing separator unless it is a root path, whose slash is
\* kept ("/" stays "/", "C:\" becomes "c:/").
C22_NormalizePath ==
  (returned # <<>> /\ returned[1].fn = "normalizePath") =>
    LET unified == Unified(args[1])
    IN returned[1].value =
         IF unified # <<>> /\ unified[Len(unified)] = "/" /\ ~IsRootPath(unified)
           THEN SubSeq(unified, 1, Len(unified) - 1)
           ELSE unified

\* C23 (functional correctness), as the claim states it: for two path
\* strings, isSubpath(p, q) is true exactly when normalized p lies strictly
\* below normalized q at a separator boundary, hence false for
\* normalized-equal paths, for a parent and for a sibling that shares a
\* string prefix, in any separator style and letter case.
C23_IsSubpath ==
  (/\ returned # <<>>
   /\ returned[1].fn = "isSubpath"
   /\ args[1] # <<>>
   /\ args[2] # <<>>) =>
    returned[1].value = LiesBelow(args[1], args[2])

\* =================================================================
\* Properties of the storage utilities
\* =================================================================
\* C24 (algebraic): a loadFromStorage(k, d) that follows a saveToStorage(k, v)
\* returns v when the storage could be accessed in both calls;
\* loadFromStorage returns d when the key has no item, when JSON.parse
\* rejects the stored text, or when the storage access throws; and no call
\* of saveToStorage, loadFromStorage or removeFromStorage throws.
C24_StorageRoundTrip ==
  [][/\ (/\ returned # <<>>
         /\ returned[1].fn = "saveToStorage"
         /\ returned[1].works
         /\ returned' # <<>>
         /\ returned'[1].fn = "loadFromStorage"
         /\ returned'[1].works
         /\ args'[1] = args[1]) => returned'[1].value = args[2]
     /\ (/\ callVars' # callVars
         /\ returned'[1].fn = "loadFromStorage"
         /\ \/ ~returned'[1].works
            \/ args'[1] \notin DOMAIN localStorage
            \/ JsonParse(localStorage[args'[1]]).threw) =>
          returned'[1].value = args'[2]
     /\ returned' # <<>> => ~returned'[1].threw]_vars

\* A load returned a saved array that is not the default: the stored text
\* has an escaped backslash and an escaped quote.
C24_Witness ==
  /\ returned # <<>>
  /\ returned[1].fn = "loadFromStorage"
  /\ returned[1].value = << <<"\\", "a", "\\", "B">>, <<"a", "\"">> >>
  /\ args = <<SCAN_PATHS, << <<"d">> >> >>
  /\ localStorage[SCAN_PATHS] = JsonStringify(returned[1].value)

\* C35, as the claim states it: for every path string
\* normalizePath(normalizePath(p)) = normalizePath(p).
C35_Idempotent ==
  (returned # <<>> /\ returned[1].fn = "normalizePath twice") =>
    returned[1].value = NormalizePath(args[1])


\* C35 (algebraic): for every path string that does not end with two
\* separators, normalizePath(normalizePath(p)) = normalizePath(p).
C35_IdempotentButDoubled ==
  (/\ returned # <<>>
   /\ returned[1].fn = "normalizePath twice"
   /\ LET unified == Unified(args[1])
      IN ~(/\ Len(unified) >= 2
           /\ unified[Len(unified)] = "/"
           /\ unified[Len(unified) - 1] = "/")) =>
    returned[1].value = NormalizePath(args[1])

\* normalizePath has been applied twice to a drive letter in upper case
\* followed by a backslash: the second call changed nothing.
C35_Witness ==
  /\ returned # <<>>
  /\ returned[1].fn = "normalizePath twice"
  /\ args[1] = <<"C", "\\">>
  /\ returned[1].value = <<"c">>


\* =================================================================
\* Properties of the filesystem root
\* =================================================================
\* The path is the filesystem root; the path is absolute.
IsRoot(path) == NormalizePath(path) = <<"/">>

IsAbsolute(path) == path # <<>> /\ NormalizePath(path)[1] = "/"

\* C36 (functional correctness), as the claim states it: with "/" among the
\* roots, the validation of a typed absolute path that is not the root lists
\* "/" in isSubpathOf and is not valid; and adding "/" to roots that are all
\* absolute, none of them the root, leaves "/" as the only root.
C36_RootIsParent ==
  [][/\ (/\ inputPath' # inputPath
         /\ pathValidation' # <<>>
         /\ IsAbsolute(Trim(inputPath'))
         /\ ~IsRoot(Trim(inputPath'))
         /\ \E i \in DOMAIN scanPaths : IsRoot(scanPaths[i])) =>
          /\ \E k \in DOMAIN pathValidation'[1].isSubpathOf :
               IsRoot(pathValidation'[1].isSubpathOf[k])
          /\ ~pathValidation'[1].isValid
     /\ \A writes \in StorageWrites :
          (/\ HandleAddPath(writes)
           /\ IsRoot(Trim(inputPath))
           /\ scanPaths # <<>>
           /\ \A i \in DOMAIN scanPaths :
                IsAbsolute(scanPaths[i]) /\ ~IsRoot(scanPaths[i])) =>
            scanPaths' = <<Trim(inputPath)>>]_vars



\* =================================================================
\* Properties of the store
\* =================================================================
\* A list of roots holds no two normalized-equal entries and no entry that
\* is a normalized sub-path of another.
PathSetHolds(paths) ==
  \A i, j \in DOMAIN paths :
    i # j => /\ ~NormalizedEqual(paths[i], paths[j])
             /\ ~LiesBelow(paths[i], paths[j])

\* C37 (invariant), as the claim states it: from every scanPaths without two
\* normalized-equal entries and without a root nested in another,
\* store.addScanPath(path) leaves scanPaths with neither.
C37_AddScanPathKeepsPathSet ==
  [][(/\ PathSetHolds(scanPaths)
      /\ \E path \in PathCandidates : \E writes \in StorageWrites :
           AddScanPath(path, writes))
       => PathSetHolds(scanPaths')]_vars


\* What loadFromStorage reads back under the scan-paths key.
PersistedPaths == LoadFromStorage(localStorage, SCAN_PATHS, <<>>, TRUE).value

\* C38 (invariant): with the storage writes succeeding, after any sequence
\* of setScanPaths, addScanPath, removeScanPath, clearScanPaths and reset
\* the value persisted under the scan-paths key equals the store's current
\* scanPaths; once a mutator has saved, the stored text is the JSON of
\* scanPaths.
C38_PersistenceConsistency ==
  /\ PersistedPaths = scanPaths
  /\ scanPaths # <<>> =>
       /\ SCAN_PATHS \in DOMAIN localStorage
       /\ JsonParse(localStorage[SCAN_PATHS]) = Normal(scanPaths)

\* reset() and then three addScanPath calls, one with a path whose
\* backslashes the stored JSON escapes.
C38_Witness ==
  /\ FILTER_CONFIG \in DOMAIN localStorage
  /\ Len(scanPaths) = 3
  /\ Contains(scanPaths, <<"\\", "a", "\\", "B">>)
  /\ localStorage[SCAN_PATHS] = JsonStringify(scanPaths)

====
